---- MODULE Spec2Model ----
(***************************************************************************)
(* MaRMAT matching engine: marmat_processing (models/marmat_processing.py) *)
(* A string is a sequence of one-character strings, so that strip(),       *)
(* the whole-word regex and the code-point order of a sort are computed.   *)
(***************************************************************************)
EXTENDS Integers, Sequences, FiniteSets, TLC

(* ------------------------------------------------------------------ *)
(* Bounds of the model                                                  *)
(* ------------------------------------------------------------------ *)
\* os.cpu_count() answers None (written 0) or a count in 1..MaxCores
MaxCores == 2
\* longest cell text handed to a single work unit
MaxTextLen == 3
\* most lexicon entries in the term batch of a single work unit
MaxBatchLen == 2
\* most entries of the filtered lexicon handed to the partitioning step
MaxTerms == 5

(* ------------------------------------------------------------------ *)
(* Characters and strings                                               *)
(* ------------------------------------------------------------------ *)
\* code point of a character (Python compares str by code point)
Ord(c) ==
    CASE c = " " -> 32 [] c = "+" -> 43
      [] c = "0" -> 48 [] c = "1" -> 49 [] c = "2" -> 50
      [] c = "A" -> 65 [] c = "B" -> 66 [] c = "S" -> 83
      [] c = "a" -> 97 [] c = "b" -> 98 [] c = "d" -> 100
      [] c = "i" -> 105 [] c = "n" -> 110 [] c = "s" -> 115
      [] c = "t" -> 116

\* str.lower() of one character, as re.IGNORECASE folds it
Lower(c) ==
    CASE c = "A" -> "a" [] c = "B" -> "b" [] c = "S" -> "s" [] OTHER -> c

\* a word character of the regex class \w
IsWordChar(c) == c \notin {" ", "+"}

\* whitespace removed by str.strip()
IsSpace(c) == c = " "

RECURSIVE LStrip(_)
LStrip(s) == IF s # <<>> /\ IsSpace(Head(s)) THEN LStrip(Tail(s)) ELSE s

RECURSIVE RStrip(_)
RStrip(s) ==
    IF s # <<>> /\ IsSpace(s[Len(s)]) THEN RStrip(SubSeq(s, 1, Len(s) - 1)) ELSE s

\* str.strip()
Strip(s) == RStrip(LStrip(s))

\* s < t for Python str: lexicographic by code point
RECURSIVE StrLess(_, _)
StrLess(s, t) ==
    IF t = <<>> THEN FALSE
    ELSE IF s = <<>> THEN TRUE
    ELSE IF Ord(Head(s)) # Ord(Head(t)) THEN Ord(Head(s)) < Ord(Head(t))
    ELSE StrLess(Tail(s), Tail(t))

(* ------------------------------------------------------------------ *)
(* Cell values: text, integer, or missing (NaN)                         *)
(* ------------------------------------------------------------------ *)
StrV(s) == [t |-> "str", i |-> 0, s |-> s]
IntV(n) == [t |-> "int", i |-> n, s |-> <<>>]
NaN == [t |-> "nan", i |-> 0, s |-> <<>>]

(* ------------------------------------------------------------------ *)
(* DataFrames                                                           *)
(* ------------------------------------------------------------------ *)
\* a DataFrame-valued attribute: None, the class pd.DataFrame itself (the
\* class-level default of matches_df and filtered_lexicon), or a frame
NoneDF == [kind |-> "none", columns |-> <<>>, rows |-> <<>>]
DataFrameClass == [kind |-> "class", columns |-> <<>>, rows |-> <<>>]
Frame(columns, rows) == [kind |-> "frame", columns |-> columns, rows |-> rows]

\* pd.DataFrame(): no columns, no rows
EmptyFrame == Frame(<<>>, <<>>)

\* the keys of a match dict, in insertion order
MatchColumns ==
    << <<"Identifier">>, <<"Term">>, <<"Category">>, <<"Column">>, <<"Original Text">> >>

\* the columns of the lexicon table after rename(columns=str.lower)
LexiconColumns == << <<"term">>, <<"category">> >>

\* pd.DataFrame(list of dicts): the columns are the dict keys; none for []
DataFrameOf(records) == Frame(IF records = <<>> THEN <<>> ELSE MatchColumns, records)

\* df.empty: True when any axis has length 0; the attribute of the class
\* pd.DataFrame is a property object, which is truthy
IsEmpty(df) == df.kind = "class" \/ df.columns = <<>> \/ df.rows = <<>>

\* position of a column name in df.columns, 0 when absent
ColumnIndex(df, col) ==
    IF \E k \in 1..Len(df.columns) : df.columns[k] = col
    THEN CHOOSE k \in 1..Len(df.columns) :
             df.columns[k] = col /\ \A j \in 1..(k - 1) : df.columns[j] # col
    ELSE 0

\* meta[col] raises KeyError
HasColumn(df, col) == ColumnIndex(df, col) # 0

\* meta[col].tolist()
ColumnToList(df, col) == [r \in 1..Len(df.rows) |-> df.rows[r][ColumnIndex(df, col)]]

\* select-where over a sequence, order kept
RECURSIVE SelectSeqBy(_, _)
SelectSeqBy(seq, keep) ==
    IF seq = <<>> THEN <<>>
    ELSE (IF Head(seq) \in keep THEN <<Head(seq)>> ELSE <<>>) \o SelectSeqBy(Tail(seq), keep)

\* concatenation of a sequence of sequences
RECURSIVE Flatten(_)
Flatten(seqs) == IF seqs = <<>> THEN <<>> ELSE Head(seqs) \o Flatten(Tail(seqs))

Range(seq) == {seq[k] : k \in 1..Len(seq)}

(* ------------------------------------------------------------------ *)
(* _match_terms_in_column: one (column, term batch) unit                *)
(* ------------------------------------------------------------------ *)
\* \b at offset p of text (between text[p] and text[p+1])
WordBoundary(text, p) ==
    LET before == p >= 1 /\ IsWordChar(text[p])
        after == p < Len(text) /\ IsWordChar(text[p + 1])
    IN  before # after

\* re.search(r'\b' + re.escape(term) + r'\b', text, re.IGNORECASE)
RegexSearch(term, text) ==
    \E p \in 0..(Len(text) - Len(term)) :
        /\ WordBoundary(text, p)
        /\ WordBoundary(text, p + Len(term))
        /\ \A k \in 1..Len(term) : Lower(text[p + k]) = Lower(term[k])

\* pd.Series(col_values) gets the object dtype, which has the .str accessor,
\* only when some value is text; all-numeric or all-missing gives a number dtype
HasStrAccessor(col_values) == \E r \in 1..Len(col_values) : col_values[r].t = "str"

\* col_series.str.contains(pattern, case=False, na=False, regex=True)
StrContains(col_values, term) ==
    [r \in 1..Len(col_values) |->
        col_values[r].t = "str" /\ RegexSearch(term, col_values[r].s)]

\* the dict appended for row idx
MatchRecord(item, entry, idx) ==
    [Identifier |-> item.id_data[idx],
     Term |-> entry.term.s,
     Category |-> entry.category,
     Column |-> item.col,
     OriginalText |-> item.col_data[idx]]

\* the matches of one term: the rows of the mask, in index order
TermMatches(item, entry) ==
    LET mask == StrContains(item.col_data, entry.term.s)
        hit(idx) == IF mask[idx] THEN <<MatchRecord(item, entry, idx)>> ELSE <<>>
    IN  Flatten([idx \in 1..Len(item.col_data) |-> hit(idx)])

\* re.escape(term) raises TypeError on a term that is not a str; .str raises
\* AttributeError on a Series without text; only re.error is caught
UnitRaises(item) ==
    \/ \E k \in 1..Len(item.batch) : item.batch[k].term.t # "str"
    \/ item.batch # <<>> /\ ~HasStrAccessor(item.col_data)

\* the return value of _match_terms_in_column(item), when it does not raise
MatchTermsInColumn(item) ==
    Flatten([k \in 1..Len(item.batch) |-> TermMatches(item, item.batch[k])])

(* ------------------------------------------------------------------ *)
(* Work partitioning and result assembly of find_matches                *)
(* ------------------------------------------------------------------ *)
\* the fallback of "os.cpu_count() or 4"
DefaultCores == 4

\* num_cores = os.cpu_count() or 4   (None is written 0)
NumCores(cpu_count) == IF cpu_count = 0 THEN DefaultCores ELSE cpu_count

Max(a, b) == IF a >= b THEN a ELSE b
Min(a, b) == IF a <= b THEN a ELSE b

\* every batch holds a single term
BatchSizeOne(n, num_cores) == 1

\* batch_size = max(1, len(terms_categories) // max(1, num_cores * 2))
BatchSize(n, num_cores) == Max(1, n \div Max(1, num_cores * 2))

\* the slices stop at the last full batch
TermBatchesFullOnly(terms_categories, num_cores) ==
    LET n == Len(terms_categories)
        size == BatchSize(n, num_cores)
    IN  [b \in 1..(n \div size) |->
            SubSeq(terms_categories, (b - 1) * size + 1, b * size)]

\* [terms_categories[i:i + batch_size] for i in range(0, len, batch_size)]
TermBatches(terms_categories, num_cores) ==
    LET n == Len(terms_categories)
        size == BatchSize(n, num_cores)
        count == (n + size - 1) \div size
    IN  [b \in 1..count |->
            SubSeq(terms_categories, (b - 1) * size + 1, Min(b * size, n))]

\* the identifier column's name is packed as col_name
ColumnWorkItemsIdName(meta, identifier, col, term_batches) ==
    [b \in 1..Len(term_batches) |->
        [col_data |-> ColumnToList(meta, col),
         id_data |-> ColumnToList(meta, identifier),
         col |-> identifier,
         batch |-> term_batches[b]]]

\* the work items of one column: one per term batch
ColumnWorkItems(meta, identifier, col, term_batches) ==
    [b \in 1..Len(term_batches) |->
        [col_data |-> ColumnToList(meta, col),
         id_data |-> ColumnToList(meta, identifier),
         col |-> col,
         batch |-> term_batches[b]]]

\* work_items: for col in sel_col, for batch in term_batches
WorkItems(meta, identifier, cols, term_batches) ==
    Flatten([c \in 1..Len(cols) |-> ColumnWorkItems(meta, identifier, cols[c], term_batches)])

\* the columns are looked up before the loop over the selected columns
WorkItemsRaiseEager(meta, identifier, cols) ==
    \/ \E c \in 1..Len(cols) : ~HasColumn(meta, cols[c])
    \/ ~identifier.set
    \/ ~HasColumn(meta, identifier.name)

\* building the work items raises: KeyError for a selected column or an
\* identifier column the table does not have, AttributeError when
\* select_identifier_column was never called (only read inside the loop)
WorkItemsRaise(meta, identifier, cols) ==
    /\ cols # <<>>
    /\ \/ \E c \in 1..Len(cols) : ~HasColumn(meta, cols[c])
       \/ ~identifier.set
       \/ ~HasColumn(meta, identifier.name)

\* the double nearest to completed / total, times 99, falls just below the
\* integer 99 * completed / total: for totals up to 3000 this happens for
\* the quotients 3/11, 6/11 and 59/99 and for no other
FloatFallsShort(completed, total) ==
    \/ 11 * completed = 3 * total
    \/ 11 * completed = 6 * total
    \/ 99 * completed = 59 * total

\* progress_percent = int((completed / total_work_items) * 99), in floating
\* point: the integer quotient, or one less where the product falls short
ProgressPercent(completed, total) ==
    IF FloatFallsShort(completed, total)
    THEN (completed * 99) \div total - 1
    ELSE (completed * 99) \div total

\* order of two cell values in a sorted column: numbers by value, text by
\* code point, missing values last
ValueLess(a, b) ==
    IF a.t = "nan" THEN FALSE
    ELSE IF b.t = "nan" THEN TRUE
    ELSE IF a.t = "int" THEN a.i < b.i
    ELSE StrLess(a.s, b.s)

\* the sort key by=['Identifier', 'Column', 'Term'], compared key by key
KeyLess(a, b) ==
    \/ ValueLess(a.Identifier, b.Identifier)
    \/ /\ a.Identifier = b.Identifier
       /\ \/ StrLess(a.Column, b.Column)
          \/ a.Column = b.Column /\ StrLess(a.Term, b.Term)

\* a key column holding both numbers and text cannot be ordered: TypeError
SortRaises(records) ==
    \E j, k \in 1..Len(records) :
        records[j].Identifier.t = "int" /\ records[k].Identifier.t = "str"

\* stable insertion of rec into a sorted sequence: after every row not greater
RECURSIVE InsertSorted(_, _)
InsertSorted(rec, sorted) ==
    IF sorted = <<>> THEN <<rec>>
    ELSE IF KeyLess(rec, Head(sorted)) THEN <<rec>> \o sorted
    ELSE <<Head(sorted)>> \o InsertSorted(rec, Tail(sorted))

\* the sorted frame is not assigned back
SortValuesDiscarded(records) == records

\* rows of sort_values(by=[...]).reset_index(drop=True): a stable sort
RECURSIVE SortValues(_)
SortValues(records) ==
    IF records = <<>> THEN <<>>
    ELSE InsertSorted(records[Len(records)], SortValues(SubSeq(records, 1, Len(records) - 1)))

(* ------------------------------------------------------------------ *)
(* Lexicon filter                                                       *)
(* ------------------------------------------------------------------ *)
\* the mask is not applied
FilterLexiconUnfiltered(lexicon, categories) == lexicon

\* lexicon_df[lexicon_df['category'].isin([c.strip() for c in categories])]
FilterLexicon(lexicon, categories) ==
    LET names == {Strip(categories[k]) : k \in 1..Len(categories)}
        keep == {row \in Range(lexicon.rows) : row.category \in names}
    IN  Frame(lexicon.columns, SelectSeqBy(lexicon.rows, keep))

\* [column.strip() for column in columns]
StripAll(names) == [k \in 1..Len(names) |-> Strip(names[k])]

(* ------------------------------------------------------------------ *)
(* The output file of perform_matching                                  *)
(* ------------------------------------------------------------------ *)
\* one decimal digit as a character
Digit(d) == CASE d = 0 -> "0" [] d = 1 -> "1" [] d = 2 -> "2"

\* an integer cell in decimal, as to_csv writes it
RECURSIVE IntToStr(_)
IntToStr(n) == IF n < 10 THEN <<Digit(n)>> ELSE IntToStr(n \div 10) \o <<Digit(n % 10)>>

\* str.endswith(suffix)
EndsWith(s, suffix) ==
    /\ Len(s) >= Len(suffix)
    /\ SubSeq(s, Len(s) - Len(suffix) + 1, Len(s)) = suffix

CsvSuffix == <<".", "c", "s", "v">>

\* every delimiter is a comma
SeparatorComma(output_file) == ","

\* to_csv(output_file, index=False) for a name ending in '.csv', else
\* to_csv(output_file, sep='\t', index=False)
Separator(output_file) == IF EndsWith(output_file, CsvSuffix) THEN "," ELSE "\t"

\* a cell as to_csv writes it: text as it is, an integer in decimal, a
\* missing value as the empty field (na_rep=''); no field here holds a
\* delimiter, a quote or a line break, so none is quoted
CsvField(v) == IF v.t = "str" THEN v.s ELSE IF v.t = "int" THEN IntToStr(v.i) ELSE <<>>

\* one line of fields for a row of the match frame
CsvRow(rec) ==
    <<CsvField(rec.Identifier), rec.Term, rec.Category, rec.Column, CsvField(rec.OriginalText)>>

\* no file was written by the call
NoFile == [exists |-> FALSE, sep |-> "", header |-> <<>>, rows |-> <<>>]

\* the file to_csv leaves: the header line is df.columns (an empty line for
\* a frame without columns), then one line per row
ToCsv(df, output_file) ==
    [exists |-> TRUE,
     sep |-> Separator(output_file),
     header |-> df.columns,
     rows |-> [k \in 1..Len(df.rows) |-> CsvRow(df.rows[k])]]

\* the write block of perform_matching: to_csv succeeds, or anything it
\* raises (a directory that does not exist, no permission, a full disk) is
\* caught by "except Exception" and printed
WriteOutcomes(df, output_file) == {NoFile, ToCsv(df, output_file)}

(* ------------------------------------------------------------------ *)
(* Inputs: the files that can be loaded and the selections a caller makes *)
(* ------------------------------------------------------------------ *)
ColId == <<"i", "d">>
ColT == <<"t">>
ColD == <<"d">>
ColN == <<"n">>
\* a header the CSV loader keeps with its trailing blank
ColDBlank == <<"d", " ">>

\* integer identifiers, two text columns with a missing cell each
MetaInts ==
    Frame(<<ColId, ColT, ColD>>,
          << <<IntV(10), StrV(<<"a", " ", "a", "s">>), StrV(<<"a", " ", "a">>)>>,
             <<IntV(2), StrV(<<"A", "s">>), NaN>>,
             <<IntV(1), NaN, StrV(<<"a", "+", " ", "b">>)>> >>)

\* an identifier column read with mixed types, a numeric column, a header
\* with a trailing blank
MetaMixed ==
    Frame(<<ColId, ColT, ColN, ColDBlank>>,
          << <<StrV(<<"b">>), StrV(<<"a", "+", " ", "b">>), IntV(1), StrV(<<"a">>)>>,
             <<IntV(2), StrV(<<"a", "+", "b">>), IntV(2), StrV(<<"b", " ", "a">>)>> >>)

\* a file with a header and no rows
MetaNoRows == Frame(<<ColId, ColT>>, <<>>)

MetadataFiles == {MetaInts, MetaMixed, MetaNoRows}

CatA == <<"A">>
CatB == <<"B">>

\* the bundled lexicon
LexiconDefault ==
    Frame(LexiconColumns,
          << [term |-> StrV(<<"a">>), category |-> CatA],
             [term |-> StrV(<<"a", "s">>), category |-> CatA],
             [term |-> StrV(<<"a", "+">>), category |-> CatB],
             [term |-> StrV(<<"b">>), category |-> CatB] >>)

\* a lexicon with an empty term cell (read as NaN) and a category written
\* with a leading blank
LexiconOther ==
    Frame(LexiconColumns,
          << [term |-> StrV(<<"a", "s">>), category |-> CatA],
             [term |-> NaN, category |-> CatB],
             [term |-> StrV(<<"a">>), category |-> <<" ", "A">>] >>)

LexiconFiles == {LexiconDefault, LexiconOther}

ColumnChoices == { <<>>, <<ColT>>, <<ColDBlank, <<" ", "t">> >>, <<ColT, ColN>> }
IdentifierChoices == {ColId, ColT}
\* output paths: one with the '.csv' suffix, one without
OutputFiles == { <<"o", ".", "c", "s", "v">>, <<"o", ".", "t", "s", "v">> }
CategoryChoices == { <<>>, <<CatA>>, <<CatA, CatB>>, << <<" ", "A">> >> }

\* identifier_column is an instance attribute set only by its setter
IdentifierUnset == [set |-> FALSE, name |-> <<>>]
IdentifierSet(name) == [set |-> TRUE, name |-> name]

(* ------------------------------------------------------------------ *)
(* State                                                                *)
(* ------------------------------------------------------------------ *)
VARIABLES
    metadata_df,        \* self.metadata_df
    lexicon_df,         \* self.lexicon_df
    selected_columns,   \* self.selected_columns
    identifier_column,  \* self.identifier_column
    filtered_lexicon,   \* self.filtered_lexicon
    matches_df,         \* self.matches_df
    categories_arg,     \* the argument of the latest select_categories call
    pc,                 \* position of the perform_matching call
    work_items,         \* find_matches: work_items
    pending,            \* futures as_completed has not yielded yet
    all_matches,        \* find_matches: all_matches
    completed_count,    \* find_matches: completed_count
    fallback_i,         \* units the sequential fallback loop has run
    progress,           \* values emitted on progress_update by the call
    finished,           \* frames emitted on finished by the call
    output_file,        \* perform_matching: the output_file argument
    written_file,       \* the file the call has written
    num_cores,          \* find_matches: num_cores
    term_batches,       \* find_matches: term_batches
    screen,             \* GUI: the window on top of the stack
    perform_matching_button,  \* GUI: "Perform Analysis" is enabled
    select_file_button, \* GUI: "Select Output Location" is enabled
    back_button,        \* GUI: "Finish" is enabled
    output_path,        \* GUI: controller.output_path
    worker              \* GUI: the worker thread of the matching window

vars ==
    <<metadata_df, lexicon_df, selected_columns, identifier_column, filtered_lexicon,
      matches_df, categories_arg, pc, work_items, pending, all_matches,
      completed_count, fallback_i, progress, finished, output_file, written_file,
      num_cores, term_batches, screen, perform_matching_button, select_file_button,
      back_button, output_path, worker>>

config == <<metadata_df, lexicon_df, selected_columns, identifier_column,
            filtered_lexicon, categories_arg>>
partition == <<num_cores, term_batches>>
locals == <<work_items, pending, all_matches, completed_count, fallback_i, partition>>
signals == <<progress, finished>>
files == <<output_file, written_file>>
buttons == <<perform_matching_button, select_file_button, back_button>>
gui == <<screen, buttons, output_path, worker>>

Running == pc \in {"pool", "parallel", "fallback", "assemble"}
\* the engine object is configured and then run: calls are made one at a
\* time and none while a run is in flight; find_matches reads no result of
\* an earlier run, so one run per behaviour is followed
Callable == pc = "idle"

\* a configuration call emits no signal and starts no run
NoRun == UNCHANGED <<pc, locals, signals, files, gui>>

\* the engine used without the GUI: no window, no worker thread
NoGui ==
    /\ screen = "none"
    /\ perform_matching_button = FALSE
    /\ select_file_button = FALSE
    /\ back_button = FALSE
    /\ output_path = <<>>
    /\ worker = "none"

\* __init__: the bundled lexicon is read, or reading it fails and lexicon_df
\* keeps the class default None
Init ==
    /\ metadata_df = NoneDF
    /\ lexicon_df \in {NoneDF, LexiconDefault}
    /\ selected_columns = <<>>
    /\ identifier_column = IdentifierUnset
    /\ filtered_lexicon = DataFrameClass
    /\ matches_df = DataFrameClass
    /\ categories_arg = <<>>
    /\ pc = "idle"
    /\ work_items = <<>>
    /\ pending = {}
    /\ all_matches = <<>>
    /\ completed_count = 0
    /\ fallback_i = 0
    /\ progress = <<>>
    /\ finished = <<>>
    /\ output_file = <<>>
    /\ written_file = NoFile
    /\ num_cores = 0
    /\ term_batches = <<>>
    /\ NoGui

(* ------------------------------------------------------------------ *)
(* Configuration calls                                                  *)
(* ------------------------------------------------------------------ *)
\* load_metadata(file_path) of a readable file: read_csv, then the column
\* names are lowercased (the files here have lowercase headers)
load_metadata ==
    /\ Callable
    /\ \E file \in MetadataFiles : metadata_df' = file
    /\ UNCHANGED <<lexicon_df, selected_columns, identifier_column, filtered_lexicon,
                   matches_df, categories_arg>>
    /\ NoRun

\* load_lexicon(file_path) of a readable file; filtered_lexicon is not touched
load_lexicon ==
    /\ Callable
    /\ \E file \in LexiconFiles : lexicon_df' = file
    /\ UNCHANGED <<metadata_df, selected_columns, identifier_column, filtered_lexicon,
                   matches_df, categories_arg>>
    /\ NoRun

select_columns ==
    /\ Callable
    /\ \E columns \in ColumnChoices : selected_columns' = StripAll(columns)
    /\ UNCHANGED <<metadata_df, lexicon_df, identifier_column, filtered_lexicon,
                   matches_df, categories_arg>>
    /\ NoRun

select_identifier_column ==
    /\ Callable
    /\ \E column \in IdentifierChoices : identifier_column' = IdentifierSet(column)
    /\ UNCHANGED <<metadata_df, lexicon_df, selected_columns, filtered_lexicon,
                   matches_df, categories_arg>>
    /\ NoRun

\* select_categories(categories); with lexicon_df None the subscript raises
\* TypeError before anything is assigned
select_categories ==
    /\ Callable
    /\ lexicon_df.kind = "frame"
    /\ \E categories \in CategoryChoices :
        /\ filtered_lexicon' = FilterLexicon(lexicon_df, categories)
        /\ categories_arg' = categories
    /\ UNCHANGED <<metadata_df, lexicon_df, selected_columns, identifier_column,
                   matches_df>>
    /\ NoRun

(* ------------------------------------------------------------------ *)
(* perform_matching / find_matches                                      *)
(* ------------------------------------------------------------------ *)
\* (term, category) pairs of the filtered lexicon
TermsCategories(lex) == lex.rows

\* the guard of find_matches
NoData(lex, meta) ==
    lex.kind = "none" \/ IsEmpty(lex) \/ meta.kind = "none" \/ IsEmpty(meta)

\* perform_matching up to the dispatch: the None check of perform_matching,
\* then find_matches(self.selected_columns) through its guard and the
\* building of the work items
perform_matching ==
    /\ Callable
    /\ output_file' \in OutputFiles
    /\ progress' = IF lexicon_df.kind # "none" /\ metadata_df.kind # "none"
                      /\ NoData(filtered_lexicon, metadata_df)
                   THEN <<100>> ELSE <<>>
    /\ \/ \* "Please load lexicon and metadata files first." and return
          /\ lexicon_df.kind = "none" \/ metadata_df.kind = "none"
          /\ pc' = "returned"
          /\ finished' = <<>>
          /\ work_items' = <<>>
          /\ num_cores' = 0 /\ term_batches' = <<>>
          /\ UNCHANGED <<matches_df, written_file>>
       \/ \* the guard: an empty frame, 100, finished, return; then the file
          /\ lexicon_df.kind # "none" /\ metadata_df.kind # "none"
          /\ NoData(filtered_lexicon, metadata_df)
          /\ matches_df' = EmptyFrame
          /\ finished' = <<EmptyFrame>>
          /\ written_file' \in WriteOutcomes(EmptyFrame, output_file')
          /\ pc' = "done"
          /\ work_items' = <<>>
          /\ num_cores' = 0 /\ term_batches' = <<>>
       \/ \* KeyError or AttributeError while the work items are built
          /\ lexicon_df.kind # "none" /\ metadata_df.kind # "none"
          /\ ~NoData(filtered_lexicon, metadata_df)
          /\ WorkItemsRaise(metadata_df, identifier_column, selected_columns)
          /\ pc' = "raised"
          /\ finished' = <<>>
          /\ work_items' = <<>>
          /\ num_cores' = 0 /\ term_batches' = <<>>
          /\ UNCHANGED <<matches_df, written_file>>
       \/ /\ lexicon_df.kind # "none" /\ metadata_df.kind # "none"
          /\ ~NoData(filtered_lexicon, metadata_df)
          /\ ~WorkItemsRaise(metadata_df, identifier_column, selected_columns)
          /\ \E cpu_count \in 0..MaxCores : num_cores' = NumCores(cpu_count)
          /\ term_batches' = TermBatches(TermsCategories(filtered_lexicon), num_cores')
          /\ work_items' = WorkItems(metadata_df, identifier_column.name, selected_columns,
                                    term_batches')
          /\ pc' = "pool"
          /\ finished' = <<>>
          /\ UNCHANGED <<matches_df, written_file>>
    /\ pending' = {}
    /\ all_matches' = <<>>
    /\ completed_count' = 0
    /\ fallback_i' = 0
    /\ UNCHANGED <<config, gui>>

\* where the sequential loop stands after i units
AfterFallback(i) == IF i >= Len(work_items) THEN "assemble" ELSE "fallback"

\* the except branch clears the column selection
pool_unavailable_clears_selection ==
    /\ pc = "pool"
    /\ pc' = AfterFallback(0)
    /\ selected_columns' = <<>>
    /\ UNCHANGED <<metadata_df, lexicon_df, identifier_column, filtered_lexicon,
                   categories_arg, matches_df, locals, signals, files, gui>>

\* ProcessPoolExecutor(max_workers=min(total_work_items, num_cores)) raises
\* ValueError for 0 workers; the platform may refuse to start processes
\* (constructor or submit); either way the except branch runs the fallback
pool_unavailable ==
    /\ pc = "pool"
    /\ pc' = AfterFallback(0)
    /\ UNCHANGED <<config, matches_df, locals, signals, files, gui>>

\* the pool starts and every work item is submitted
pool_started ==
    /\ pc = "pool"
    /\ work_items # <<>>
    /\ pending' = 1..Len(work_items)
    /\ pc' = "parallel"
    /\ UNCHANGED <<config, matches_df, work_items, all_matches, completed_count,
                   fallback_i, partition, signals, files, gui>>

\* one iteration of the as_completed loop: a future finishes, in any order;
\* the exception of a unit is caught, its result is extended otherwise
unit_completed ==
    /\ pc = "parallel"
    /\ \E u \in pending :
        /\ pending' = pending \ {u}
        /\ all_matches' = IF UnitRaises(work_items[u]) THEN all_matches
                          ELSE all_matches \o MatchTermsInColumn(work_items[u])
        /\ pc' = IF pending = {u} THEN "assemble" ELSE "parallel"
    /\ completed_count' = completed_count + 1
    /\ progress' = Append(progress, ProgressPercent(completed_count + 1, Len(work_items)))
    /\ UNCHANGED <<config, matches_df, work_items, fallback_i, partition, finished, files,
                   gui>>

\* an exception inside the with-block outside the per-future try (waiting
\* for the next future, emitting progress): the except branch runs the
\* fallback over all work items; all_matches is not cleared
parallel_abandoned ==
    /\ pc = "parallel"
    /\ pending' = {}
    /\ pc' = AfterFallback(0)
    /\ UNCHANGED <<config, matches_df, work_items, all_matches, completed_count,
                   fallback_i, partition, signals, files, gui>>

\* one iteration of the fallback loop; an exception of the unit is not caught
fallback_unit ==
    /\ pc = "fallback"
    /\ LET item == work_items[fallback_i + 1] IN
        \/ /\ UnitRaises(item)
           /\ pc' = "raised"
           /\ UNCHANGED <<all_matches, fallback_i, progress>>
        \/ /\ ~UnitRaises(item)
           /\ all_matches' = all_matches \o MatchTermsInColumn(item)
           /\ fallback_i' = fallback_i + 1
           /\ progress' = Append(progress, ProgressPercent(fallback_i + 1, Len(work_items)))
           /\ pc' = AfterFallback(fallback_i + 1)
    /\ UNCHANGED <<config, matches_df, work_items, pending, completed_count, partition,
                   finished, files, gui>>

\* Result Assembly: the frame, the sort, 100, finished, return, and then the
\* write block of perform_matching; a sort that raises leaves the unsorted
\* frame in matches_df and no file
assemble ==
    /\ pc = "assemble"
    /\ \/ /\ SortRaises(all_matches)
          /\ matches_df' = DataFrameOf(all_matches)
          /\ pc' = "raised"
          /\ UNCHANGED <<signals, written_file>>
       \/ /\ ~SortRaises(all_matches)
          /\ matches_df' = DataFrameOf(SortValues(all_matches))
          /\ progress' = Append(progress, 100)
          /\ finished' = Append(finished, matches_df')
          /\ written_file' \in WriteOutcomes(matches_df', output_file)
          /\ pc' = "done"
    /\ UNCHANGED <<config, locals, output_file, gui>>

Next ==
    \/ load_metadata
    \/ load_lexicon
    \/ select_columns
    \/ select_identifier_column
    \/ select_categories
    \/ perform_matching
    \/ pool_unavailable
    \/ pool_started
    \/ unit_completed
    \/ parallel_abandoned
    \/ fallback_unit
    \/ assemble

Spec == Init /\ [][Next]_vars

(* ------------------------------------------------------------------ *)
(* One work unit on its own: _match_terms_in_column(args) over every    *)
(* short cell text and every short term batch                           *)
(* ------------------------------------------------------------------ *)
\* characters of a cell: two cases of a letter, a second letter, a
\* punctuation mark, a blank
Alphabet == {"a", "A", "s", "+", " "}

\* every text of at most n characters
RECURSIVE Texts(_)
Texts(n) ==
    IF n = 0 THEN {<<>>}
    ELSE Texts(n - 1) \cup {Append(t, c) : t \in Texts(n - 1), c \in Alphabet}

\* lexicon terms: a word, a word of mixed case, a term ending and a term
\* starting with a punctuation mark
UnitTerms == { <<"a">>, <<"A", "s">>, <<"a", "+">>, <<"+", "a">> }

\* the term cells of a lexicon: text, or an empty cell read as NaN
UnitTermCells == {StrV(x) : x \in UnitTerms} \cup {NaN}

\* every batch of 1..n lexicon entries; a lexicon may list a term twice
RECURSIVE Batches(_)
Batches(n) ==
    IF n = 0 THEN {<<>>}
    ELSE Batches(n - 1) \cup
         {Append(b, [term |-> x, category |-> CatA]) : b \in Batches(n - 1), x \in UnitTermCells}

\* the cell under test: a text, a number or a missing value
UnitCells(n) == {StrV(t) : t \in Texts(n)} \cup {IntV(1), NaN}

\* the second row of the unit's column: a text or a missing value
OtherRowText == <<"A", "s", " ", "a">>
OtherRowCells == {StrV(OtherRowText), NaN}

\* args = (col_data, id_data, col_name, term_batch): the cell under test in
\* row 1, another cell in row 2
UnitItem(cell, other, batch) ==
    [col_data |-> <<cell, other>>,
     id_data |-> <<IntV(1), IntV(2)>>,
     col |-> ColT,
     batch |-> batch]

UnitInit ==
    /\ metadata_df = NoneDF
    /\ lexicon_df = NoneDF
    /\ selected_columns = <<>>
    /\ identifier_column = IdentifierUnset
    /\ filtered_lexicon = DataFrameClass
    /\ matches_df = DataFrameClass
    /\ categories_arg = <<>>
    /\ pc = "unit"
    /\ \E cell \in UnitCells(MaxTextLen), other \in OtherRowCells,
          batch \in Batches(MaxBatchLen) \ {<<>>} :
        work_items = <<UnitItem(cell, other, batch)>>
    /\ pending = {}
    /\ all_matches = <<>>
    /\ completed_count = 0
    /\ fallback_i = 0
    /\ progress = <<>>
    /\ finished = <<>>
    /\ output_file = <<>>
    /\ written_file = NoFile
    /\ num_cores = 0
    /\ term_batches = <<>>
    /\ NoGui

\* the call _match_terms_in_column(work_items[0]): its list of matches, or
\* the exception it raises
match_unit ==
    /\ pc = "unit"
    /\ IF UnitRaises(work_items[1])
       THEN pc' = "unit_raised" /\ UNCHANGED all_matches
       ELSE pc' = "unit_done" /\ all_matches' = MatchTermsInColumn(work_items[1])
    /\ UNCHANGED <<config, matches_df, work_items, pending, completed_count, fallback_i,
                   partition, signals, files, gui>>

UnitNext == match_unit

UnitSpec == UnitInit /\ [][UnitNext]_vars

(* ------------------------------------------------------------------ *)
(* Work Partitioning on its own: find_matches from terms_categories to  *)
(* work_items, over every short filtered lexicon                        *)
(* ------------------------------------------------------------------ *)
\* the entries a filtered lexicon is made of here
PartitionEntries ==
    { [term |-> StrV(<<"a">>), category |-> CatA],
      [term |-> StrV(<<"b">>), category |-> CatB] }

\* every list of 1..n entries
RECURSIVE TermLists(_)
TermLists(n) ==
    IF n = 1 THEN {<<e>> : e \in PartitionEntries}
    ELSE TermLists(n - 1) \cup
         {Append(l, e) : l \in {x \in TermLists(n - 1) : Len(x) = n - 1}, e \in PartitionEntries}

\* a configured engine past the guard of find_matches: a table with rows, a
\* non-empty filtered lexicon, an identifier column and one or two selected
\* columns of the table
PartitionInit ==
    /\ metadata_df = MetaInts
    /\ lexicon_df \in {Frame(LexiconColumns, l) : l \in TermLists(MaxTerms)}
    /\ filtered_lexicon = lexicon_df
    /\ categories_arg = <<CatA, CatB>>
    /\ selected_columns \in { <<ColT>>, <<ColT, ColD>> }
    /\ identifier_column = IdentifierSet(ColId)
    /\ matches_df = DataFrameClass
    /\ pc = "partition"
    /\ work_items = <<>>
    /\ pending = {}
    /\ all_matches = <<>>
    /\ completed_count = 0
    /\ fallback_i = 0
    /\ progress = <<>>
    /\ finished = <<>>
    /\ output_file = <<>>
    /\ written_file = NoFile
    /\ num_cores = 0
    /\ term_batches = <<>>
    /\ NoGui

\* num_cores, batch_size, term_batches and work_items as find_matches
\* builds them
partition_work ==
    /\ pc = "partition"
    /\ \E cpu_count \in 0..MaxCores : num_cores' = NumCores(cpu_count)
    /\ term_batches' = TermBatches(TermsCategories(filtered_lexicon), num_cores')
    /\ work_items' = WorkItems(metadata_df, identifier_column.name, selected_columns,
                              term_batches')
    /\ pc' = "partitioned"
    /\ UNCHANGED <<config, matches_df, pending, all_matches, completed_count, fallback_i,
                   signals, files, gui>>

PartitionNext == partition_work

PartitionSpec == PartitionInit /\ [][PartitionNext]_vars

(* ------------------------------------------------------------------ *)
(* The matching window of the GUI (views/perform_matching_window.py)    *)
(* over a configured engine: the run is made by a worker thread         *)
(* ------------------------------------------------------------------ *)
\* init_ui: a new "Select Output Location" button is enabled, "Perform
\* Analysis" and "Finish" are disabled, there is no worker
InitUi ==
    /\ screen = "perform_matching"
    /\ perform_matching_button = FALSE
    /\ select_file_button = TRUE
    /\ back_button = FALSE
    /\ worker = "none"

\* the window is shown after the earlier screens loaded the files and made
\* the selections
GuiInit ==
    /\ metadata_df \in {MetaInts, MetaMixed}
    /\ lexicon_df = LexiconDefault
    /\ categories_arg = <<CatA>>
    /\ filtered_lexicon = FilterLexicon(lexicon_df, categories_arg)
    /\ selected_columns \in {StripAll(columns) : columns \in ColumnChoices}
    /\ identifier_column = IdentifierSet(ColId)
    /\ matches_df = DataFrameClass
    /\ pc = "idle"
    /\ work_items = <<>>
    /\ pending = {}
    /\ all_matches = <<>>
    /\ completed_count = 0
    /\ fallback_i = 0
    /\ progress = <<>>
    /\ finished = <<>>
    /\ output_file = <<>>
    /\ written_file = NoFile
    /\ num_cores = 0
    /\ term_batches = <<>>
    /\ output_path = <<>>
    /\ InitUi

\* what a GUI handler leaves alone: the engine and its run
NoEngine == UNCHANGED <<config, matches_df, pc, locals, signals, files>>

\* select_output_file: the save dialog answers a path, or is cancelled
\* (written <<>>); a path enables "Perform Analysis"
select_output_file ==
    /\ screen = "perform_matching"
    /\ select_file_button
    /\ \E file_path \in OutputFiles \cup {<<>>} :
        IF file_path # <<>>
        THEN output_path' = file_path /\ perform_matching_button' = TRUE
        ELSE UNCHANGED <<output_path, perform_matching_button>>
    /\ UNCHANGED <<screen, select_file_button, back_button, worker>>
    /\ NoEngine

\* the click handler leaves "Select Output Location" enabled
window_perform_matching_keeps_select ==
    /\ screen = "perform_matching"
    /\ perform_matching_button
    /\ perform_matching_button' = FALSE
    /\ back_button' = FALSE
    /\ worker' = "started"
    /\ UNCHANGED <<screen, output_path, select_file_button>>
    /\ NoEngine

\* PerformMatchingWindow.perform_matching, the click on "Perform Analysis":
\* the output path is set from the line edit, the three buttons are
\* disabled, a worker is created and its thread started
window_perform_matching ==
    /\ screen = "perform_matching"
    /\ perform_matching_button
    /\ perform_matching_button' = FALSE
    /\ select_file_button' = FALSE
    /\ back_button' = FALSE
    /\ worker' = "started"
    /\ UNCHANGED <<screen, output_path>>
    /\ NoEngine

\* Worker.run, first statement: controller.perform_matching(self.progress),
\* which calls the engine with output_file=self.output_path
Worker_run ==
    /\ worker = "started"
    /\ perform_matching
    /\ output_file' = output_path

\* Worker.run, second statement: the call has returned, finished is emitted
\* (when the call raised, the statement is never reached)
Worker_finished ==
    /\ worker = "started"
    /\ pc \in {"done", "returned"}
    /\ worker' = "emitted"
    /\ pc' = "idle"
    /\ UNCHANGED <<config, matches_df, locals, signals, files, screen, buttons, output_path>>

\* show_matching_results, the slot of Worker.finished
show_matching_results ==
    /\ worker = "emitted"
    /\ perform_matching_button' = FALSE
    /\ select_file_button' = TRUE
    /\ back_button' = TRUE
    /\ worker' = "none"
    /\ UNCHANGED <<screen, output_path>>
    /\ NoEngine

\* the click on "Finish": controller.show_main_screen
show_main_screen ==
    /\ screen = "perform_matching"
    /\ back_button
    /\ screen' = "main"
    /\ UNCHANGED <<buttons, output_path, worker>>
    /\ NoEngine

\* back on the earlier screens the column selection is made again
reselect_columns ==
    /\ screen = "main"
    /\ select_columns

\* controller.show_perform_matching_screen: init_ui() builds the widgets
\* anew and the window is put on top
show_perform_matching_screen ==
    /\ screen = "main"
    /\ screen' = "perform_matching"
    /\ perform_matching_button' = FALSE
    /\ select_file_button' = TRUE
    /\ back_button' = FALSE
    /\ worker' = "none"
    /\ UNCHANGED output_path
    /\ NoEngine

GuiNext ==
    \/ select_output_file
    \/ window_perform_matching
    \/ Worker_run
    \/ pool_unavailable
    \/ pool_started
    \/ unit_completed
    \/ parallel_abandoned
    \/ fallback_unit
    \/ assemble
    \/ Worker_finished
    \/ show_matching_results
    \/ show_main_screen
    \/ reselect_columns
    \/ show_perform_matching_screen

GuiSpec == GuiInit /\ [][GuiNext]_vars

(* ------------------------------------------------------------------ *)
(* Properties                                                           *)
(* ------------------------------------------------------------------ *)
\* the find_matches run has ended, by return or by an exception
RunEnded == pc \in {"done", "raised"}
\* the perform_matching call has ended
CallEnded == pc \in {"done", "raised", "returned"}

Last(seq) == seq[Len(seq)]
Count(seq, v) == Cardinality({k \in 1..Len(seq) : seq[k] = v})
BagOfSeq(seq) == [r \in Range(seq) |-> Count(seq, r)]

\* C1: the progress values of a run are within 0..100 and never decrease,
\* on every path, the fallback after an abandoned parallel block included
C1_ProgressMonotone ==
    \A k \in 1..Len(progress) :
        /\ progress[k] \in 0..100
        /\ k > 1 => progress[k - 1] <= progress[k]

\* C2: every run of find_matches emits 100 exactly once, as its last progress
\* value; no per-unit value is 100 and none follows the 100
C2_ExactlyOneFinal100 ==
    /\ Running => Count(progress, 100) = 0
    /\ RunEnded => Count(progress, 100) = 1 /\ Last(progress) = 100

\* C3: a perform_matching call always ends with a Result Table in matches_df
\* and a final progress value of 100, also when a table is absent
C3_AlwaysCompletes ==
    CallEnded =>
        /\ matches_df.kind = "frame"
        /\ progress # <<>> /\ Last(progress) = 100

\* find_matches is entered with an empty record table, an empty filtered
\* lexicon or no selected column
EmptyInput ==
    /\ metadata_df.kind = "frame" /\ lexicon_df.kind = "frame"
    /\ \/ IsEmpty(metadata_df)
       \/ IsEmpty(filtered_lexicon)
       \/ selected_columns = <<>>

\* C4: each of an empty record table, an empty filtered lexicon and an empty
\* column selection gives an empty Result Table, a single progress value 100
\* and the completion signal, and no exception
C4_EmptyInputs ==
    (EmptyInput /\ pc # "idle") =>
        /\ pc \notin {"raised", "returned"}
        /\ all_matches = <<>>
        /\ Running => progress = <<>> /\ finished = <<>>
        /\ pc = "done" =>
            /\ matches_df = EmptyFrame
            /\ progress = <<100>>
            /\ finished = <<EmptyFrame>>

\* C4 happens: a run over a non-empty table and lexicon with no selected
\* column has ended
C4_Witness ==
    /\ pc = "done"
    /\ selected_columns = <<>>
    /\ ~IsEmpty(metadata_df)
    /\ ~IsEmpty(filtered_lexicon)

\* C5: no exception escapes find_matches, whatever the selection state
C5_NoException == pc # "raised"

\* C6: an exception raised inside a work unit never ends the run, in the
\* pool and in the sequential fallback alike: dispatching goes on to the
\* other units
C6_UnitFailureContained ==
    [][(pc \in {"parallel", "fallback"}) => (pc' # "raised")]_vars

\* the outcome of running every unit in the sequential fallback alone
SequentialRaises(items) == \E k \in 1..Len(items) : UnitRaises(items[k])
SequentialMatches(items) == Flatten([k \in 1..Len(items) |-> MatchTermsInColumn(items[k])])

\* the run went through the pool alone: every unit was yielded by as_completed
PoolRunDone == pc = "done" /\ work_items # <<>> /\ completed_count = Len(work_items)

\* C7: whatever the completion order, the Result Table of a run through the
\* pool has the content of the Result Table the sequential fallback alone
\* produces from the same work items
C7_PoolEqualsFallback ==
    PoolRunDone =>
        /\ ~SequentialRaises(work_items)
        /\ BagOfSeq(matches_df.rows) = BagOfSeq(SequentialMatches(work_items))

\* str(v) of a cell value
ToStr(v) == IF v.t = "str" THEN v.s ELSE IF v.t = "int" THEN IntToStr(v.i) ELSE <<"n", "a", "n">>

\* Python's str order on the three keys, identifiers taken as text
StringKeyLess(a, b) ==
    \/ StrLess(ToStr(a.Identifier), ToStr(b.Identifier))
    \/ /\ ToStr(a.Identifier) = ToStr(b.Identifier)
       /\ \/ StrLess(a.Column, b.Column)
          \/ a.Column = b.Column /\ StrLess(a.Term, b.Term)

NativeIdLess(a, b) ==
    CASE a.t = "nan" -> FALSE
      [] b.t = "nan" -> TRUE
      [] a.t = "int" /\ b.t = "int" -> a.i < b.i
      [] a.t = "str" /\ b.t = "str" -> StrLess(a.s, b.s)
      [] OTHER -> FALSE

NativeKeyLess(a, b) ==
    \/ NativeIdLess(a.Identifier, b.Identifier)
    \/ /\ a.Identifier = b.Identifier
       /\ \/ StrLess(a.Column, b.Column)
          \/ a.Column = b.Column /\ StrLess(a.Term, b.Term)

C9_CategoryInPassed ==
    pc = "done" =>
        \A k \in 1..Len(matches_df.rows) :
            matches_df.rows[k].Category \in Range(categories_arg)

\* C9 amended: every Category of the Result Table is one of the names passed
\* to the latest select_categories call after trimming surrounding whitespace
C9_CategoryInTrimmed ==
    pc = "done" =>
        \A k \in 1..Len(matches_df.rows) :
            matches_df.rows[k].Category \in {Strip(c) : c \in Range(categories_arg)}

\* C9 happens: a run ended with matches after a selection that left out a
\* category of the loaded lexicon
C9_Witness ==
    /\ pc = "done"
    /\ matches_df.rows # <<>>
    /\ \E k \in 1..Len(lexicon_df.rows) :
        lexicon_df.rows[k].category \notin {Strip(c) : c \in Range(categories_arg)}

\* C10: every Column of the Result Table is one of the selected columns the
\* run was started with
C10_ColumnSelected ==
    /\ Running => \A k \in 1..Len(all_matches) : all_matches[k].Column \in Range(selected_columns)
    /\ pc = "done" =>
        \A k \in 1..Len(matches_df.rows) :
            matches_df.rows[k].Column \in Range(selected_columns)

\* C10 happens: a run ended with matches in two selected columns
C10_Witness ==
    /\ pc = "done"
    /\ \E j, k \in 1..Len(matches_df.rows) :
        matches_df.rows[j].Column # matches_df.rows[k].Column

(* ------------------------------------------------------------------ *)
(* Whole-word matching of one unit (UnitSpec)                           *)
(* ------------------------------------------------------------------ *)
\* the cell text and the term batch the unit was called with
UnitText == work_items[1].col_data[1].s
UnitBatch == work_items[1].batch

\* the offsets at which term occurs in text, letter case ignored
Occurrences(term, text) ==
    {p \in 0..(Len(text) - Len(term)) :
        \A k \in 1..Len(term) : Lower(text[p + k]) = Lower(term[k])}

\* the occurrence at offset p has a word character right before or after it
InsideToken(term, text, p) ==
    \/ p >= 1 /\ IsWordChar(text[p])
    \/ p + Len(term) < Len(text) /\ IsWordChar(text[p + Len(term) + 1])

\* text holds term as a token of its own: some occurrence is delimited on
\* each side by the start or end of the text or by a non-word character
IsolatedIn(term, text) ==
    \E p \in Occurrences(term, text) : ~InsideToken(term, text, p)

\* the records the unit returned for the cell under test and the term
UnitRecords(term) ==
    {k \in 1..Len(all_matches) :
        all_matches[k].Identifier = IntV(1) /\ all_matches[k].Term = term}

\* C11: when every occurrence of a term in the cell text is immediately
\* preceded or followed by a word character, the unit returns no Match
\* Record for that cell and term
C11_NoMatchInsideToken ==
    pc = "unit_done" =>
        \A k \in 1..Len(UnitBatch) :
            LET term == UnitBatch[k].term.s IN
            (\A p \in Occurrences(term, UnitText) : InsideToken(term, UnitText, p))
                => UnitRecords(term) = {}

\* C12: a term that occurs in the cell text as a token of its own gives a
\* Match Record for that cell, for every term, a term that starts or ends
\* with a non-word character included
C12_IsolatedTokenMatches ==
    pc = "unit_done" =>
        \A k \in 1..Len(UnitBatch) :
            LET term == UnitBatch[k].term.s IN
            IsolatedIn(term, UnitText) => UnitRecords(term) # {}

\* the distinct terms of the batch the cell under test holds as whole words
WholeWordTerms ==
    {term \in {UnitBatch[k].term.s : k \in 1..Len(UnitBatch)} : IsolatedIn(term, UnitText)}

\* C13: a cell holding k distinct terms of the batch as whole words gives
\* exactly k Match Records for that row and column, one per term, each with
\* the row's Identifier and the cell's text
C13_OneRecordPerTerm ==
    pc = "unit_done" =>
        LET cell == {k \in 1..Len(all_matches) : all_matches[k].Identifier = IntV(1)} IN
        /\ Cardinality(cell) = Cardinality(WholeWordTerms)
        /\ \A term \in WholeWordTerms : Cardinality(UnitRecords(term)) = 1
        /\ \A k \in cell :
            /\ all_matches[k].OriginalText = StrV(UnitText)
            /\ all_matches[k].Column = ColT

(* ------------------------------------------------------------------ *)
(* The output file                                                      *)
(* ------------------------------------------------------------------ *)
\* C14: a file written by perform_matching starts with the header row of
\* the five column names in order, followed by one row per Match Record,
\* also when the Result Table is empty
C14_HeaderAlways ==
    written_file.exists =>
        /\ written_file.header = MatchColumns
        /\ Len(written_file.rows) = Len(matches_df.rows)

\* C15: the written file is comma-separated when the output name ends with
\* ".csv" and tab-separated otherwise, and holds the rows of matches_df; a
\* failed write ends the call like a successful one, with the table the run
\* produced still in matches_df
C15_DelimiterAndWriteFailure ==
    /\ written_file.exists => pc = "done"
    /\ pc = "done" =>
        /\ matches_df = Last(finished)
        /\ written_file.exists =>
            /\ written_file.sep = (IF EndsWith(output_file, <<".", "c", "s", "v">>)
                                   THEN "," ELSE "\t")
            /\ written_file.rows = [k \in 1..Len(matches_df.rows) |-> CsvRow(matches_df.rows[k])]

\* C15 happens: a run with matches wrote a file whose name does not end
\* with ".csv"
C15_Witness ==
    /\ pc = "done"
    /\ written_file.exists
    /\ ~EndsWith(output_file, <<".", "c", "s", "v">>)
    /\ written_file.rows # <<>>

(* ------------------------------------------------------------------ *)
(* The filtered lexicon                                                 *)
(* ------------------------------------------------------------------ *)
\* the rows of lexicon whose category, trimmed, is one of the trimmed names
TrimmedFilter(lexicon, names) ==
    LET trimmed == {Strip(names[k]) : k \in 1..Len(names)}
        keep == {row \in Range(lexicon.rows) : Strip(row.category) \in trimmed}
    IN  Frame(lexicon.columns, SelectSeqBy(lexicon.rows, keep))

\* C16: select_categories(names) leaves in the filtered lexicon exactly the
\* lexicon rows whose category, compared after trimming, equals one of the
\* trimmed names, a row whose category has surrounding whitespace included
C16_FilterComparesTrimmed ==
    [][select_categories => (filtered_lexicon' = TrimmedFilter(lexicon_df, categories_arg'))]_vars

\* C17: once categories were selected, the filtered lexicon is the subset of
\* the lexicon loaded now that lies in the latest selected categories,
\* whatever load_lexicon and select_categories calls came before
C17_FilterFollowsLexicon ==
    filtered_lexicon.kind = "frame" =>
        filtered_lexicon = FilterLexicon(lexicon_df, categories_arg)

(* ------------------------------------------------------------------ *)
(* Completion of a run                                                  *)
(* ------------------------------------------------------------------ *)
\* C18: a run emits finished exactly once, with the table that is stored in
\* matches_df, after the final progress value 100, and nothing before its end
C18_FinishedOnceAfter100 ==
    /\ Running => finished = <<>>
    /\ RunEnded =>
        /\ Len(finished) = 1
        /\ finished[1] = matches_df
        /\ progress # <<>> /\ Last(progress) = 100

\* C19: a started run does not stop before Done: wherever it stands short
\* of Done, a further step of it is possible
C19_RunReachesDone ==
    (pc \notin {"idle", "returned"}) => (pc = "done" \/ ENABLED Next)

\* the record of row r, column col and lexicon entry e
ReferenceRecord(r, col, e) ==
    [Identifier |-> metadata_df.rows[r][ColumnIndex(metadata_df, identifier_column.name)],
     Term |-> e.term.s,
     Category |-> e.category,
     Column |-> col,
     OriginalText |-> metadata_df.rows[r][ColumnIndex(metadata_df, col)]]

\* the triples (row, selected column, lexicon entry) whose cell is text and
\* holds the entry's term as a whole word, letter case ignored
ReferenceTriples ==
    {<<r, c, k>> \in (1..Len(metadata_df.rows)) \X (1..Len(selected_columns))
                      \X (1..Len(filtered_lexicon.rows)) :
        LET cell == metadata_df.rows[r][ColumnIndex(metadata_df, selected_columns[c])]
            term == filtered_lexicon.rows[k].term
        IN  cell.t = "str" /\ term.t = "str" /\ RegexSearch(term.s, cell.s)}

\* how many reference triples give the record rec
ReferenceCount(rec) ==
    Cardinality({x \in ReferenceTriples :
        ReferenceRecord(x[1], selected_columns[x[2]], filtered_lexicon.rows[x[3]]) = rec})

\* C20: when no unit fails, the Result Table holds, as a collection, exactly
\* one record per (row, selected column, lexicon entry) whose cell is text
\* and holds the term as a whole word: none lost, none reported twice
C20_TableEqualsReference ==
    (pc = "done" /\ work_items # <<>> /\ ~SequentialRaises(work_items)) =>
        /\ \A x \in ReferenceTriples :
            ReferenceRecord(x[1], selected_columns[x[2]], filtered_lexicon.rows[x[3]])
                \in Range(matches_df.rows)
        /\ \A rec \in Range(matches_df.rows) :
            Count(matches_df.rows, rec) = ReferenceCount(rec)

(* ------------------------------------------------------------------ *)
(* Work partitioning (PartitionSpec)                                    *)
(* ------------------------------------------------------------------ *)
\* the lengths of the batches, in order
BatchLengths(batches) == [b \in 1..Len(batches) |-> Len(batches[b])]

\* C21: the term batches partition the (term, category) list: concatenated
\* in order they give back the list, none is empty, and their boundaries are
\* those of any list of the same length under the same core count
C21_BatchesPartition ==
    pc = "partitioned" =>
        LET terms == TermsCategories(filtered_lexicon)
            positions == [k \in 1..Len(terms) |-> k]
        IN  /\ Flatten(term_batches) = terms
            /\ \A b \in 1..Len(term_batches) : term_batches[b] # <<>>
            /\ BatchLengths(term_batches) = BatchLengths(TermBatches(positions, num_cores))
            /\ Flatten(TermBatches(positions, num_cores)) = positions

\* C21 happens: a list was cut into three or more batches, the last one
\* shorter than the others
C21_Witness ==
    /\ pc = "partitioned"
    /\ Len(term_batches) >= 3
    /\ Len(term_batches[Len(term_batches)]) < Len(term_batches[1])

\* batch_count = max(1, num_cores * 2)
TargetBatchCount == IF 1 >= 2 * num_cores THEN 1 ELSE 2 * num_cores

\* C22 as stated: the number of batches is the target batch_count when the
\* list has at least that many terms, and the number of terms otherwise
C22_BatchCountIsTarget ==
    pc = "partitioned" =>
        LET n == Len(TermsCategories(filtered_lexicon)) IN
        Len(term_batches) = (IF n >= TargetBatchCount THEN TargetBatchCount ELSE n)

\* C22 amended: with n terms and batch_count = max(1, 2 x cores), the
\* number of batches is n when n < batch_count, and otherwise at least
\* batch_count and at most 2 x batch_count - 1, being batch_count exactly
\* when batch_count divides n; the number of work units is the number of
\* selected columns times the number of batches
C22_BatchCountBounds ==
    pc = "partitioned" =>
        LET n == Len(TermsCategories(filtered_lexicon)) IN
        /\ n < TargetBatchCount => Len(term_batches) = n
        /\ n >= TargetBatchCount =>
            /\ Len(term_batches) >= TargetBatchCount
            /\ Len(term_batches) <= 2 * TargetBatchCount - 1
            /\ n % TargetBatchCount = 0 => Len(term_batches) = TargetBatchCount
        /\ Len(work_items) = Len(selected_columns) * Len(term_batches)

\* C22 happens: the partitioning made more batches than the target
C22_Witness ==
    /\ pc = "partitioned"
    /\ Len(term_batches) > TargetBatchCount
    /\ Len(selected_columns) = 2

(* ------------------------------------------------------------------ *)
(* Progress values of a run                                             *)
(* ------------------------------------------------------------------ *)
\* C23: a run of U >= 1 units in which the pool started emits one progress
\* value per completed unit and then 100: U + 1 values, the k-th being
\* floor(99 * k / U) and the U-th 99
C23_ProgressPerUnit ==
    (pc = "done" /\ completed_count >= 1) =>
        LET U == Len(work_items) IN
        /\ Len(progress) = U + 1
        /\ \A k \in 1..U : progress[k] = (99 * k) \div U
        /\ progress[U] = 99

(* ------------------------------------------------------------------ *)
(* Failures inside one unit (UnitSpec)                                  *)
(* ------------------------------------------------------------------ *)
\* the text terms of the batch that the unit's text cells hold, by the
\* unit's own match rule
MatchingEntries ==
    {k \in 1..Len(UnitBatch) :
        /\ UnitBatch[k].term.t = "str"
        /\ \E r \in 1..Len(work_items[1].col_data) :
            /\ work_items[1].col_data[r].t = "str"
            /\ RegexSearch(UnitBatch[k].term.s, work_items[1].col_data[r].s)}

\* C24: a term the match rule cannot be built from (a term that is not a
\* string) is skipped for that term only: the unit still returns the
\* matches of every other term of its batch
C24_BadTermSkipped ==
    (pc \in {"unit_done", "unit_raised"}
        /\ \E k \in 1..Len(UnitBatch) : UnitBatch[k].term.t # "str") =>
        /\ pc = "unit_done"
        /\ \A k \in MatchingEntries :
            \E j \in 1..Len(all_matches) : all_matches[j].Term = UnitBatch[k].term.s

\* C25: non-text and missing cells never make the unit raise: they give no
\* Match Record, the text cells of the column are still matched, and a
\* column without any text cell gives an empty list
C25_NonTextCellsSkipped ==
    (pc \in {"unit_done", "unit_raised"}
        /\ \A k \in 1..Len(UnitBatch) : UnitBatch[k].term.t = "str") =>
        /\ pc = "unit_done"
        /\ \A j \in 1..Len(all_matches) : all_matches[j].OriginalText.t = "str"
        /\ \A k \in MatchingEntries :
            \E j \in 1..Len(all_matches) : all_matches[j].Term = UnitBatch[k].term.s

(* ------------------------------------------------------------------ *)
(* Dispatch                                                             *)
(* ------------------------------------------------------------------ *)
\* C26: with no selected column the run never stands before the pool
\* constructor, in the fallback path or in the assembly after them: the
\* empty selection is short-circuited before the dispatch
C26_EmptySelectionShortCircuits ==
    selected_columns = <<>> => pc \notin {"pool", "parallel", "fallback", "assemble"}

\* the parallel block was abandoned after some unit had completed, and the
\* fallback then ran every unit
AbandonedRunDone ==
    /\ pc = "done"
    /\ completed_count >= 1
    /\ fallback_i = Len(work_items)

\* C27: after a parallel block abandoned with units already completed, the
\* table of the fallback holds every match once: the records collected
\* before the failure are not counted again
C27_NoDoubleCount ==
    AbandonedRunDone =>
        BagOfSeq(matches_df.rows) = BagOfSeq(SequentialMatches(work_items))

\* C28: the Result Table holds at most one record for a (row, selected
\* column, lexicon entry), however often the term occurs in the cell, and
\* each record carries the identifier and the cell of the row it is for
C28_OneRecordPerTriple ==
    pc = "done" =>
        \A rec \in Range(matches_df.rows) :
            /\ ReferenceCount(rec) >= 1
            /\ Count(matches_df.rows, rec) <= ReferenceCount(rec)

\* C29: a run changes none of metadata_df, lexicon_df, filtered_lexicon,
\* selected_columns and identifier_column, from its start to its end, on
\* the guard path, the parallel path and the fallback path
C29_RunChangesOnlyMatches ==
    [][(pc' # "idle") =>
        /\ metadata_df' = metadata_df
        /\ lexicon_df' = lexicon_df
        /\ filtered_lexicon' = filtered_lexicon
        /\ selected_columns' = selected_columns
        /\ identifier_column' = identifier_column]_vars

\* C29 happens: a run through the sequential fallback has ended with matches
C29_Witness ==
    /\ pc = "done"
    /\ matches_df.rows # <<>>
    /\ fallback_i = Len(work_items)

(* ------------------------------------------------------------------ *)
(* The matching window (GuiSpec)                                        *)
(* ------------------------------------------------------------------ *)
\* from the click on "Perform Analysis" until the slot of the worker's
\* finished signal has run
RunInFlight == worker \in {"started", "emitted"}

\* C30: while a run is in flight "Perform Analysis", "Select Output
\* Location" and "Finish" are disabled, no second run is started and the
\* selections are not changed; "Perform Analysis" is enabled again only by
\* the choice of an output location made when no run is in flight
C30_OneRunButtonsDisabled ==
    /\ [](RunInFlight =>
            ~perform_matching_button /\ ~select_file_button /\ ~back_button)
    /\ [][/\ (worker' = "started" /\ worker # "started") => (worker = "none")
          /\ RunInFlight =>
                /\ selected_columns' = selected_columns
                /\ identifier_column' = identifier_column
                /\ filtered_lexicon' = filtered_lexicon
                /\ output_path' = output_path
          /\ (~perform_matching_button /\ perform_matching_button') =>
                /\ ~RunInFlight
                /\ select_file_button
                /\ output_path' \in OutputFiles]_vars

\* C30 happens: a second run is in flight, after the first has finished and
\* an output location was selected again
C30_Witness ==
    /\ worker = "started"
    /\ pc \in {"parallel", "fallback"}
    /\ matches_df.kind = "frame"

====
